---- MODULE Spec2Model ----
(***************************************************************************)
(* Competitor campaign tracker: the scrape -> reconcile -> audit pipeline  *)
(* of app.py / scheduler.py / run.py over the store of models.py, and the  *)
(* aggregation and extraction functions of scraper.py.                     *)
(*                                                                         *)
(* Texts are sequences of one-character strings; Python's None is the      *)
(* one-element sequence NoneVal.  Time is counted in clock ticks,          *)
(* TicksPerDay of them to a day, so that timedelta.days (a floor) is       *)
(* computed and not assumed.                                               *)
(***************************************************************************)
EXTENDS Integers, Sequences, FiniteSets, TLC

VARIABLES
    now,        \* datetime.utcnow(), in ticks
    store,      \* rows of table competitor_campaigns (a set of records)
    nextId,     \* next autoincrement primary key of competitor_campaigns
    logs,       \* rows of table scrape_logs, in insertion order
    proc,       \* per entry point: position and locals of its invocation
    runs,       \* number of invocations started so far
    lastBatch,  \* campaigns_data of the most recently completed invocation
    faults,     \* number of store writes rejected so far
    sc,         \* scrape_all under test: its inputs and its result
    ex,         \* _extract_campaign_from_element under test: node and result
    cl,         \* _detect_category under test: text and result
    rc          \* the two reconciliations under test: inputs and results

vars == <<now, store, nextId, logs, proc, runs, lastBatch, faults, sc, ex, cl, rc>>

-----------------------------------------------------------------------------
(* Bounds of the model *)

MaxTime == 8
MaxRuns == 3
MaxFaults == 2

(* Granularity of the clock: ticks per day *)
TicksPerDay == 2

(* app.py:406 / scheduler.py:158: "if days_since_seen > 3" *)
StaleDays == 3

(* scraper.py:257: "len(name) > 3" *)
MinNameLen == 3

(* scraper.py:271: "len(info) > 10" *)
MinInfoLen == 10

-----------------------------------------------------------------------------
(* Python values *)

NoneVal == <<"None">>

\* Python truthiness of an optional string: None and '' are falsy
Truthy(s) == s # NoneVal /\ s # <<>>

\* "a or b" on optional strings
PyOr(a, b) == IF Truthy(a) THEN a ELSE b

IsSpace(c) == c = " "

RECURSIVE Collapse(_, _)
\* re.sub(r'\s+', ' ', text): prevSpace says the previous character was whitespace
Collapse(text, prevSpace) ==
    IF text = <<>> THEN <<>>
    ELSE IF IsSpace(Head(text))
         THEN IF prevSpace THEN Collapse(Tail(text), TRUE)
              ELSE <<" ">> \o Collapse(Tail(text), TRUE)
         ELSE <<Head(text)>> \o Collapse(Tail(text), FALSE)

\* str.strip() of a text whose whitespace runs are already single spaces
Strip(text) ==
    LET a == IF text # <<>> /\ IsSpace(Head(text)) THEN Tail(text) ELSE text
    IN  IF a # <<>> /\ IsSpace(a[Len(a)]) THEN SubSeq(a, 1, Len(a) - 1) ELSE a

\* MarriottChinaScraper._clean_text
clean_text(text) ==
    IF ~Truthy(text) THEN <<>> ELSE Strip(Collapse(text, FALSE))

-----------------------------------------------------------------------------
(* scraper.py: aggregation *)

\* "'offers' in url": a URL is the sequence of its words
Contains(url, word) == \E i \in DOMAIN url : url[i] = word

\* scraper.py:353-357, the default list of scrape_all (used by trigger_scrape)
DEFAULT_URLS ==
    << <<"default">>, <<"specials", "offers">>, <<"bonvoy", "member", "benefits">> >>

\* config.py:24-28, Config.MARRIOTT_CHINA_URLS (used by scrape_job)
MARRIOTT_CHINA_URLS ==
    << <<"default">>, <<"bonvoy", "member", "benefits">>, <<"specials", "offers">> >>

\* A variant of RoleOf that tests the member words before the offer word
RoleOfMemberFirst(url) ==
    IF Contains(url, "bonvoy") \/ Contains(url, "member") THEN "bonvoy"
    ELSE IF Contains(url, "offers") THEN "offers"
    ELSE "home"

\* scrape_all's choice of the scan for a URL (scraper.py:364-369)
RoleOf(url) ==
    IF Contains(url, "offers") THEN "offers"
    ELSE IF Contains(url, "bonvoy") \/ Contains(url, "member") THEN "bonvoy"
    ELSE "home"

\* The campaign dictionary the scans build (scraper.py:284-291, 330-337)
Campaign(name, info, url, category, t) ==
    [campaign_name |-> name, campaign_info |-> info, source_url |-> url,
     category |-> category, scraped_date |-> t, competitor_name |-> "Marriott"]

RECURSIVE ItemsOf(_, _, _)
\* The campaigns one scan collects from a fetched document, in discovery order:
\* an item of the document is found by the scans whose selectors match it, its
\* name is the cleaned text of its heading (scraper.py:256, 321), and it is kept
\* only "if campaign and campaign.get('campaign_name')".
ItemsOf(items, role, t) ==
    IF items = <<>> THEN <<>>
    ELSE LET it == Head(items) IN
         (IF role \in it.roles /\ Truthy(clean_text(it.name))
          THEN <<Campaign(clean_text(it.name), it.info, it.url, it.category, t)>>
          ELSE <<>>) \o ItemsOf(Tail(items), role, t)

\* MarriottChinaScraper._extract_from_generic_elements: the headings of the
\* document that match a promotional pattern, as campaigns
extract_from_generic_elements(doc, t) == ItemsOf(doc.items, "generic", t)

\* scrape_homepage / scrape_offers_page / scrape_bonvoy_page on one URL:
\* a fetch failure returns [] (scraper.py:134-135), any other exception is raised
\* after its own selectors scrape_homepage, and only it, adds the headings that
\* match the promotional patterns (scraper.py:160-161)
ScanPage(role, doc, t) ==
    IF doc.status = "error" THEN [raised |-> TRUE, value |-> <<>>]
    ELSE IF doc.status = "unavailable" THEN [raised |-> FALSE, value |-> <<>>]
    ELSE [raised |-> FALSE,
          value |-> ItemsOf(doc.items, role, t) \o
                    (IF role = "home" THEN extract_from_generic_elements(doc, t)
                     ELSE <<>>)]

\* A variant of Dedup that never consults seen_names
DedupKeepsAll(campaigns, all, seen) ==
    [all |-> all \o campaigns,
     seen |-> seen \cup {campaigns[k].campaign_name : k \in DOMAIN campaigns}]

RECURSIVE Dedup(_, _, _)
\* scraper.py:372-376: keep a campaign when its name is new to seen_names
Dedup(campaigns, all, seen) ==
    IF campaigns = <<>> THEN [all |-> all, seen |-> seen]
    ELSE LET c == Head(campaigns)
             name == c.campaign_name
         IN  IF Truthy(name) /\ name \notin seen
             THEN Dedup(Tail(campaigns), Append(all, c), seen \cup {name})
             ELSE Dedup(Tail(campaigns), all, seen)

RECURSIVE ScrapeLoopAborts(_, _, _, _, _)
\* A variant of ScrapeLoop whose try encloses the whole loop
ScrapeLoopAborts(urls, pages, t, all, seen) ==
    IF urls = <<>> THEN all
    ELSE LET url == Head(urls)
             got == ScanPage(RoleOf(url), pages[url], t)
             d   == Dedup(got.value, all, seen)
         IN  IF got.raised THEN all
             ELSE ScrapeLoopAborts(Tail(urls), pages, t, d.all, d.seen)

RECURSIVE ScrapeLoop(_, _, _, _, _)
\* scraper.py:362-379: the loop over the URLs
ScrapeLoop(urls, pages, t, all, seen) ==
    IF urls = <<>> THEN all
    ELSE LET url == Head(urls)
             got == ScanPage(RoleOf(url), pages[url], t)
             d   == Dedup(got.value, all, seen)
         IN  IF got.raised
             THEN ScrapeLoop(Tail(urls), pages, t, all, seen)
             ELSE ScrapeLoop(Tail(urls), pages, t, d.all, d.seen)

\* MarriottChinaScraper.scrape_all
scrape_all(urls, pages, t) == ScrapeLoop(urls, pages, t, <<>>, {})

\* scraper.py:386-455, get_demo_campaigns (the first two of its eight entries)
get_demo_campaigns(t) ==
    << Campaign(<<"d", "e", "m", "o", "1">>, <<"i", "1">>, "demo1", "family", t),
       Campaign(<<"d", "e", "m", "o", "2">>, <<"i", "2">>, "demo2", "rewards", t) >>

-----------------------------------------------------------------------------
(* scraper.py: the category classifier *)

\* str.lower() on the letters the model uses; a character of Chinese script
\* (written here as its pinyin) is its own lower case
LowerChar(c) ==
    CASE c = "A" -> "a" [] c = "B" -> "b" [] c = "K" -> "k" [] c = "N" -> "n"
      [] c = "O" -> "o" [] c = "P" -> "p" [] c = "S" -> "s" [] c = "V" -> "v"
      [] c = "Y" -> "y" [] OTHER -> c

Lower(text) == [k \in DOMAIN text |-> LowerChar(text[k])]

\* A variant of "keyword in text" that finds the keyword only at the start
IsPrefix(keyword, text) ==
    Len(keyword) <= Len(text) /\ SubSeq(text, 1, Len(keyword)) = keyword

\* "keyword in text" on strings
IsSubstring(keyword, text) ==
    \E k \in 0..(Len(text) - Len(keyword)) :
        SubSeq(text, k + 1, k + Len(keyword)) = keyword

\* MarriottChinaScraper.CATEGORY_KEYWORDS, in declared order
CATEGORY_KEYWORDS ==
    << <<"family", << <<"qin", "zi">>, <<"jia", "ting">>, <<"er", "tong">>,
                      <<"jia", "zu">>, <<"qin", "qing">>, <<"hai", "zi">> >> >>,
       <<"dining", << <<"can", "yin">>, <<"mei", "shi">>, <<"can", "ting2">>,
                      <<"yin", "shi">>, <<"yong", "can">>, <<"zao", "can">>,
                      <<"wan", "can">>, <<"zi2", "zhu", "can">> >> >>,
       <<"seasonal", << <<"ji", "jie">>, <<"chun">>, <<"xia">>, <<"qiu">>, <<"dong">>,
                        <<"jie", "ri">>, <<"xin", "nian">>, <<"sheng", "dan">>,
                        <<"chun", "jie">>, <<"zhong", "qiu">> >> >>,
       <<"rewards", << <<"ji2", "fen">>, <<"hui", "yuan">>, <<"lv", "xiang", "jia">>,
                       <<"jiang", "li">>, <<"li2", "cheng">>, <<"fan", "xian">>,
                       <<"B", "o", "n", "v", "o", "y">> >> >>,
       <<"travel", << <<"lv", "xing">>, <<"du", "jia2">>, <<"chu", "xing">>,
                      <<"lv", "you">>, <<"you", "wan2">>, <<"tan", "suo">> >> >>,
       <<"business", << <<"shang", "wu">>, <<"hui", "yi">>, <<"ban", "gong">>,
                        <<"chai", "lv">> >> >>,
       <<"spa", << <<"shui", "liao">>, <<"S", "P", "A">>, <<"yang", "sheng2">>,
                   <<"an", "mo">>, <<"li3", "liao">> >> >>,
       <<"wedding", << <<"hun", "li4">>, <<"hun", "yan">>, <<"hun", "qing2">>,
                       <<"mi", "yue">> >> >>,
       <<"promotion", << <<"you2", "hui2">>, <<"zhe", "kou">>, <<"te", "jia3">>,
                         <<"cu", "xiao">>, <<"li5", "jian">>, <<"fan", "li6">> >> >> >>

RECURSIVE CategoryLoop(_, _)
\* scraper.py:72-77: the first category, in table order, with a keyword in the text
CategoryLoop(text_lower, k) ==
    IF k > Len(CATEGORY_KEYWORDS) THEN "general"
    ELSE LET category == CATEGORY_KEYWORDS[k][1]
             keywords == CATEGORY_KEYWORDS[k][2]
         IN  IF \E j \in DOMAIN keywords : IsSubstring(Lower(keywords[j]), text_lower)
             THEN category
             ELSE CategoryLoop(text_lower, k + 1)

\* MarriottChinaScraper._detect_category
detect_category(text) ==
    IF ~Truthy(text) THEN "general" ELSE CategoryLoop(Lower(text), 1)

-----------------------------------------------------------------------------
(* scraper.py: the element extractor *)

\* A node is the sequence of its descendant elements in document order, each a
\* record [tag, class, text], and the href of its first anchor ("" for none).
\* Equality of elements is equality of these records, as bs4 compares tags.

name_selectors ==
    <<"h1", "h2", "h3", "h4", ".title", ".name", ".heading", "[class*=title]">>

info_selectors ==
    <<"p", ".description", ".info", ".content", ".summary", "[class*=desc]">>

\* Whether a CSS selector of the two lists matches an element
Matches(selector, el) ==
    CASE selector \in {"h1", "h2", "h3", "h4", "p"} -> el.tag = selector
      [] selector = ".title" -> el.class = "title"
      [] selector = ".name" -> el.class = "name"
      [] selector = ".heading" -> el.class = "heading"
      [] selector = "[class*=title]" -> el.class \in {"title", "subtitle"}
      [] selector = ".description" -> el.class = "description"
      [] selector = ".info" -> el.class = "info"
      [] selector = ".content" -> el.class = "content"
      [] selector = ".summary" -> el.class = "summary"
      [] selector = "[class*=desc]" -> el.class \in {"desc", "description"}
      [] OTHER -> FALSE

\* element.select_one(selector): the index of the first match, 0 for None
SelectOne(node, selector) ==
    LET hit == {k \in DOMAIN node.elems : Matches(selector, node.elems[k])}
    IN  IF hit = {} THEN 0 ELSE CHOOSE k \in hit : \A m \in hit : k <= m

RECURSIVE NameLoop(_, _, _)
\* scraper.py:253-258: name keeps the text of the last selector tried
NameLoop(node, k, name) ==
    IF k > Len(name_selectors) THEN name
    ELSE LET e == SelectOne(node, name_selectors[k]) IN
         IF e = 0 THEN NameLoop(node, k + 1, name)
         ELSE LET n == clean_text(node.elems[e].text) IN
              IF Truthy(n) /\ Len(n) > MinNameLen THEN n
              ELSE NameLoop(node, k + 1, n)

\* "info_elem != element.select_one(name_selectors[0])"
DiffersFromFirstH1(node, e) ==
    LET h == SelectOne(node, name_selectors[1])
    IN  h = 0 \/ node.elems[e] # node.elems[h]

RECURSIVE InfoLoop(_, _, _)
\* scraper.py:267-272
InfoLoop(node, k, info) ==
    IF k > Len(info_selectors) THEN info
    ELSE LET e == SelectOne(node, info_selectors[k]) IN
         IF e = 0 \/ ~DiffersFromFirstH1(node, e) THEN InfoLoop(node, k + 1, info)
         ELSE LET n == clean_text(node.elems[e].text) IN
              IF Truthy(n) /\ Len(n) > MinInfoLen THEN n
              ELSE InfoLoop(node, k + 1, n)

NoCampaign == [found |-> FALSE]

\* urllib.parse.urljoin on the hrefs of the model, which are absolute URLs
urljoin(base, href) == href

\* MarriottChinaScraper._extract_campaign_from_element
extract_campaign_from_element(node, source_url, t) ==
    LET name == NameLoop(node, 1, NoneVal) IN
    IF ~Truthy(name) THEN NoCampaign
    ELSE LET info == InfoLoop(node, 1, NoneVal)
             campaign_url == IF node.href # "" THEN urljoin(source_url, node.href)
                             ELSE source_url
             combined_text == name \o <<" ">> \o (IF Truthy(info) THEN info ELSE <<>>)
         IN  [found |-> TRUE,
              campaign |-> Campaign(name, info, campaign_url,
                                    detect_category(combined_text), t)]

-----------------------------------------------------------------------------
(* models.py: the store *)

\* Mutant: the identity is looked up in the wrong column
IdentityMatchWrongColumn(row, name, competitor) ==
    row.campaign_info = name /\ row.competitor_name = competitor

\* models.py:38-41: the identity of a row is (campaign_name, competitor_name)
IdentityMatch(row, name, competitor) ==
    row.campaign_name = name /\ row.competitor_name = competitor

\* CompetitorCampaign.query.filter_by(campaign_name=, competitor_name=).first():
\* the id of the matching row with the lowest id, 0 for None
FindExisting(rows, name, competitor) ==
    LET hit == {r \in rows : IdentityMatch(r, name, competitor)}
    IN  IF hit = {} THEN 0
        ELSE (CHOOSE r \in hit : \A q \in hit : r.id <= q.id).id

\* UniqueConstraint('campaign_name', 'competitor_name'): an INSERT of this
\* identity is rejected when a row already has it
UniqueViolation(rows, name, competitor) ==
    \E r \in rows : IdentityMatch(r, name, competitor)

RowById(rows, id) == CHOOSE r \in rows : r.id = id

\* (datetime.utcnow() - campaign.last_seen_date).days
DaysSince(t, last_seen) == (t - last_seen) \div TicksPerDay

-----------------------------------------------------------------------------
(* app.py / scheduler.py: reconciliation of one campaign *)

\* "campaign_data.get('competitor_name', 'Marriott')"
CompetitorOf(c) == c.competitor_name

\* Mutant: the update forgets "existing.is_active = True"
UpdatedRowKeepsFlag(row, c, t) ==
    [row EXCEPT !.campaign_info = PyOr(c.campaign_info, row.campaign_info),
                !.source_url = IF c.source_url # "" THEN c.source_url ELSE row.source_url,
                !.category = IF c.category # "" THEN c.category ELSE row.category,
                !.last_seen_date = t]

\* A variant of UpdatedRow that stores the incoming description as it comes
UpdatedRowOverwrites(row, c, t) ==
    [row EXCEPT !.campaign_info = c.campaign_info,
                !.source_url = IF c.source_url # "" THEN c.source_url ELSE row.source_url,
                !.category = IF c.category # "" THEN c.category ELSE row.category,
                !.last_seen_date = t,
                !.is_active = TRUE]

\* A variant of UpdatedRow that takes the discovery time from the candidate
UpdatedRowResetsDiscovery(row, c, t) ==
    [row EXCEPT !.campaign_info = PyOr(c.campaign_info, row.campaign_info),
                !.source_url = IF c.source_url # "" THEN c.source_url ELSE row.source_url,
                !.category = IF c.category # "" THEN c.category ELSE row.category,
                !.scraped_date = c.scraped_date,
                !.last_seen_date = t,
                !.is_active = TRUE]

\* save_campaign, the branch "if existing:" (app.py:356-365, scheduler.py:123-130)
UpdatedRow(row, c, t) ==
    [row EXCEPT !.campaign_info = PyOr(c.campaign_info, row.campaign_info),
                !.source_url = IF c.source_url # "" THEN c.source_url ELSE row.source_url,
                !.category = IF c.category # "" THEN c.category ELSE row.category,
                !.last_seen_date = t,
                !.is_active = TRUE]

\* A variant of NewRow that takes lastSeenAt from the candidate
NewRowSeenAtDiscovery(id, c, t) ==
    [id |-> id,
     campaign_name |-> c.campaign_name,
     campaign_info |-> c.campaign_info,
     source_url |-> c.source_url,
     category |-> c.category,
     competitor_name |-> CompetitorOf(c),
     scraped_date |-> c.scraped_date,
     last_seen_date |-> c.scraped_date,
     is_active |-> TRUE]

\* save_campaign, the branch "else:" (app.py:366-381, scheduler.py:131-144)
NewRow(id, c, t) ==
    [id |-> id,
     campaign_name |-> c.campaign_name,
     campaign_info |-> c.campaign_info,
     source_url |-> c.source_url,
     category |-> c.category,
     competitor_name |-> CompetitorOf(c),
     scraped_date |-> c.scraped_date,
     last_seen_date |-> t,
     is_active |-> TRUE]

\* "current_names = {c.get('campaign_name') for c in current_campaigns if ...}"
CurrentNames(current_campaigns) ==
    {current_campaigns[k].campaign_name : k \in
        {j \in DOMAIN current_campaigns : Truthy(current_campaigns[j].campaign_name)}}

\* Mutant: the window is one day short
IsStaleAtThreeDays(t, last_seen) == DaysSince(t, last_seen) >= StaleDays

\* Mutant: the elapsed time is rounded up to whole days
IsStaleRoundedUp(t, last_seen) ==
    (t - last_seen + TicksPerDay - 1) \div TicksPerDay > StaleDays

\* "if days_since_seen > 3" (app.py:405-406, scheduler.py:157-158)
IsStale(t, last_seen) == DaysSince(t, last_seen) > StaleDays

\* A variant of MarkInactive that deletes the stale rows
MarkInactiveDeletes(rows, current_campaigns, t) ==
    {r \in rows : ~(/\ r.competitor_name = "Marriott"
                    /\ r.is_active
                    /\ r.campaign_name \notin CurrentNames(current_campaigns)
                    /\ IsStale(t, r.last_seen_date))}

\* mark_inactive_campaigns / _mark_inactive_campaigns: the rows after the sweep
MarkInactive(rows, current_campaigns, t) ==
    LET current_names == CurrentNames(current_campaigns)
        hit(r) == /\ r.competitor_name = "Marriott"
                  /\ r.is_active
                  /\ r.campaign_name \notin current_names
                  /\ IsStale(t, r.last_seen_date)
    IN  {IF hit(r) THEN [r EXCEPT !.is_active = FALSE] ELSE r : r \in rows}

-----------------------------------------------------------------------------
(* Inputs of the pipeline: what the three pages hold when a run scrapes them *)

NameA == <<"s", "p", "a", "s">>
NameB == <<"S", "P", "A", "S">>

Item(name, info, url, category, roles) ==
    [name |-> name, info |-> info, url |-> url, category |-> category, roles |-> roles]

DocOk(items) == [status |-> "ok", items |-> items]
DocDown == [status |-> "unavailable", items |-> <<>>]
DocError == [status |-> "error", items |-> <<>>]

UrlSet == {DEFAULT_URLS[k] : k \in DOMAIN DEFAULT_URLS}

Pages(home, offers, bonvoy) ==
    [u \in UrlSet |->
        IF RoleOf(u) = "offers" THEN offers
        ELSE IF RoleOf(u) = "bonvoy" THEN bonvoy ELSE home]

PageInputs ==
    { Pages(DocDown, DocDown, DocDown),
      Pages(DocOk(<<Item(NameA, <<"y">>, "u1", "general", {"home"})>>),
            DocOk(<<Item(NameB, NoneVal, "u3", "spa", {"offers"}),
                    Item(<<" ">> \o NameA, <<"z">>, "u3", "spa", {"offers"})>>),
            DocError),
      Pages(DocOk(<<Item(NameA, NoneVal, "u2", "spa", {"home"})>>), DocDown, DocDown) }

-----------------------------------------------------------------------------
(* The entry points: trigger_scrape (web), scrape_job (sched), run.py --init *)

Procs == {"web", "sched", "init"}

IdleProc ==
    [pc |-> "idle", campaigns_data |-> <<>>, i |-> 0, existing |-> 0,
     new_count |-> 0, updated_count |-> 0, use_demo |-> FALSE,
     scrape_empty |-> FALSE, results |-> <<>>, sess |-> "ok", runNo |-> 0,
     prevBatch |-> <<>>, startSize |-> 0, swept |-> FALSE, sweepAt |-> 0,
     revived |-> {}]

Resting(p) == proc[p].pc \in {"idle", "done"}

\* The locals of an invocation that has scraped and is about to save
Begin(p, data, use_demo, scrape_empty) ==
    [IdleProc EXCEPT !.pc = "loop", !.campaigns_data = data, !.i = 1,
                     !.use_demo = use_demo, !.scrape_empty = scrape_empty,
                     !.runNo = runs + 1, !.prevBatch = lastBatch,
                     !.startSize = Cardinality(store)]

\* The invocation has returned: its locals are gone
Returned(p) == [IdleProc EXCEPT !.pc = "done", !.runNo = proc[p].runNo]

\* A batch without its discovery times
Payload(data) == [k \in DOMAIN data |-> [data[k] EXCEPT !.scraped_date = 0]]

\* trigger_scrape, app.py:229-246: the request, the scrape, the demo fallback
StartWeb(use_demo, pages) ==
    /\ \A q \in Procs : Resting(q)
    /\ runs < MaxRuns
    /\ LET scraped == IF use_demo THEN <<>> ELSE scrape_all(DEFAULT_URLS, pages, now)
           empty == ~use_demo /\ scraped = <<>>
           data == IF use_demo \/ empty THEN get_demo_campaigns(now) ELSE scraped
       IN  proc' = [proc EXCEPT !["web"] = Begin("web", data, use_demo \/ empty, empty)]
    /\ runs' = runs + 1
    /\ UNCHANGED <<now, store, nextId, logs, lastBatch, faults, sc, ex, cl, rc>>

\* scrape_job, scheduler.py:45-61
SchedBegin(pages) ==
    /\ \A q \in Procs : Resting(q)
    /\ LET scraped == scrape_all(MARRIOTT_CHINA_URLS, pages, now)
           empty == scraped = <<>>
           data == IF empty THEN get_demo_campaigns(now) ELSE scraped
       IN  proc' = [proc EXCEPT !["sched"] = Begin("sched", data, empty, empty)]
    /\ runs' = runs + 1
    /\ UNCHANGED <<now, store, nextId, logs, lastBatch, faults, sc, ex, cl, rc>>

\* The scheduler's job fires at some time
StartSched(pages) ==
    /\ runs < MaxRuns
    /\ SchedBegin(pages)

\* run.py:30-40, main with --init: the demo campaigns are loaded
StartInit ==
    /\ \A q \in Procs : Resting(q)
    /\ runs < MaxRuns
    /\ proc' = [proc EXCEPT !["init"] =
                    Begin("init", get_demo_campaigns(now), TRUE, FALSE)]
    /\ runs' = runs + 1
    /\ UNCHANGED <<now, store, nextId, logs, lastBatch, faults, sc, ex, cl, rc>>

\* The candidate p is saving
Current(p) == proc[p].campaigns_data[proc[p].i]

\* A variant of Lookup without the validation of the name
LookupUnvalidated(p) ==
    /\ proc[p].pc = "loop"
    /\ proc[p].i <= Len(proc[p].campaigns_data)
    /\ LET c == proc[p].campaigns_data[proc[p].i] IN
       proc' = [proc EXCEPT ![p] =
                    [@ EXCEPT !.pc = "write",
                              !.existing = FindExisting(store, c.campaign_name,
                                                        CompetitorOf(c))]]
    /\ UNCHANGED <<now, store, nextId, logs, runs, lastBatch, faults, sc, ex, cl, rc>>

\* save_campaign up to its query (app.py:346-354, scheduler.py:115-121)
Lookup(p) ==
    /\ proc[p].pc = "loop"
    /\ proc[p].i <= Len(proc[p].campaigns_data)
    /\ LET c == proc[p].campaigns_data[proc[p].i] IN
       proc' = [proc EXCEPT ![p] =
                    IF ~Truthy(c.campaign_name)
                    THEN [@ EXCEPT !.results = Append(@, "skipped"), !.i = @ + 1]
                    ELSE [@ EXCEPT !.pc = "write",
                                   !.existing = FindExisting(store, c.campaign_name,
                                                             CompetitorOf(c))]]
    /\ UNCHANGED <<now, store, nextId, logs, runs, lastBatch, faults, sc, ex, cl, rc>>

\* save_campaign from "if existing:" to its return, and the caller's counting
\* (app.py:356-381 and 250-253, scheduler.py:123-144 and 65-68)
Write(p) ==
    /\ proc[p].pc = "write"
    /\ LET c == proc[p].campaigns_data[proc[p].i] IN
       IF proc[p].existing # 0
       THEN LET row == RowById(store, proc[p].existing) IN
            /\ store' = (store \ {row}) \cup {UpdatedRow(row, c, now)}
            /\ nextId' = nextId
            /\ proc' = [proc EXCEPT ![p] =
                            [@ EXCEPT !.pc = "loop", !.i = @ + 1,
                                      !.results = Append(@, "updated"),
                                      !.updated_count = @ + 1,
                                      !.revived = IF row.is_active THEN @
                                                  ELSE @ \cup {row.id}]]
       ELSE /\ ~UniqueViolation(store, c.campaign_name, CompetitorOf(c))
            /\ store' = store \cup {NewRow(nextId, c, now)}
            /\ nextId' = nextId + 1
            /\ proc' = [proc EXCEPT ![p] =
                            [@ EXCEPT !.pc = "loop", !.i = @ + 1,
                                      !.results = Append(@, "new"),
                                      !.new_count = @ + 1]]
    /\ UNCHANGED <<now, logs, runs, lastBatch, faults, sc, ex, cl, rc>>

\* The end of the loop: "if campaigns_data:" (app.py:257, scheduler.py:71);
\* run.py --init returns after its loop
EndLoop(p) ==
    /\ proc[p].pc = "loop"
    /\ proc[p].i > Len(proc[p].campaigns_data)
    /\ proc' = [proc EXCEPT ![p] =
                    IF p = "init" THEN [@ EXCEPT !.pc = "ret"]
                    ELSE IF proc[p].campaigns_data # <<>> THEN [@ EXCEPT !.pc = "sweep"]
                    ELSE [@ EXCEPT !.pc = "log"]]
    /\ UNCHANGED <<now, store, nextId, logs, runs, lastBatch, faults, sc, ex, cl, rc>>

\* run.py:46-48: --init reports and returns
InitReturn ==
    /\ proc["init"].pc = "ret"
    /\ proc' = [proc EXCEPT !["init"] = Returned("init")]
    /\ lastBatch' = proc["init"].campaigns_data
    /\ UNCHANGED <<now, store, nextId, logs, runs, faults, sc, ex, cl, rc>>

\* mark_inactive_campaigns(campaigns_data) (app.py:384-409, scheduler.py:146-161)
Sweep(p) ==
    /\ proc[p].pc = "sweep"
    /\ store' = MarkInactive(store, proc[p].campaigns_data, now)
    /\ proc' = [proc EXCEPT ![p] = [@ EXCEPT !.pc = "log", !.swept = TRUE, !.sweepAt = now]]
    /\ UNCHANGED <<now, nextId, logs, runs, lastBatch, faults, sc, ex, cl, rc>>

\* The ScrapeLog row of a run
LogRow(status, found, new, run) ==
    [status |-> status, campaigns_found |-> found, new_campaigns |-> new, run |-> run]

\* "Log the scrape" (app.py:260-269, scheduler.py:74-83) and the return
LogSuccess(p) ==
    /\ proc[p].pc = "log"
    /\ logs' = Append(logs, LogRow("success", Len(proc[p].campaigns_data),
                                   proc[p].new_count, proc[p].runNo))
    /\ proc' = [proc EXCEPT ![p] = Returned(p)]
    /\ lastBatch' = proc[p].campaigns_data
    /\ UNCHANGED <<now, store, nextId, runs, faults, sc, ex, cl, rc>>

\* The clock advances: between invocations, and by at most one tick between
\* the scrape of an invocation and its first save
Tick ==
    /\ now < MaxTime
    /\ \A p \in Procs :
          \/ Resting(p)
          \/ /\ proc[p].pc = "loop"
             /\ proc[p].i = 1
             /\ proc[p].campaigns_data[1].scraped_date = now
    /\ now' = now + 1
    /\ UNCHANGED <<store, nextId, logs, proc, runs, lastBatch, faults, sc, ex, cl, rc>>

ScInit == [urls |-> <<>>, pages |-> <<>>, out |-> <<>>, done |-> TRUE]
ClInit == [text |-> <<>>, out |-> "general", done |-> TRUE]
ExInit == [node |-> [elems |-> <<>>, href |-> ""], out |-> NoCampaign, done |-> TRUE]

\* What a reconciliation gives back: the classifications and the rows
NoOutcome == [results |-> <<>>, rows |-> {}]
RcInit == [rows |-> {}, data |-> <<>>, t |-> 0, web |-> NoOutcome,
           sched |-> NoOutcome, done |-> TRUE]

Init ==
    /\ now = 0
    /\ store = {}
    /\ nextId = 1
    /\ logs = <<>>
    /\ proc = [p \in Procs |-> IdleProc]
    /\ runs = 0
    /\ lastBatch = <<>>
    /\ faults = 0
    /\ sc = ScInit
    /\ ex = ExInit
    /\ cl = ClInit
    /\ rc = RcInit

Next ==
    \/ \E u \in BOOLEAN, pages \in PageInputs : StartWeb(u, pages)
    \/ \E pages \in PageInputs : StartSched(pages)
    \/ StartInit
    \/ \E p \in Procs : Lookup(p)
    \/ \E p \in Procs : Write(p)
    \/ \E p \in Procs : EndLoop(p)
    \/ InitReturn
    \/ \E p \in Procs : Sweep(p)
    \/ \E p \in Procs : LogSuccess(p)
    \/ Tick

\* Sequential runs against a store that accepts every write
Spec == Init /\ [][Next]_vars

-----------------------------------------------------------------------------
(* The scheduler alone, firing once a day at the same time of day            *)
(* (scheduler.py:171-177, CronTrigger(hour=6, minute=0))                     *)

Today == now \div TicksPerDay

CronFire(pages) ==
    /\ runs = Today
    /\ SchedBegin(pages)

NextDay ==
    /\ runs = Today + 1
    /\ Resting("sched")
    /\ now + TicksPerDay <= MaxTime
    /\ now' = now + TicksPerDay
    /\ UNCHANGED <<store, nextId, logs, proc, runs, lastBatch, faults, sc, ex, cl, rc>>

NextCron ==
    \/ \E pages \in PageInputs : CronFire(pages)
    \/ Lookup("sched")
    \/ Write("sched")
    \/ EndLoop("sched")
    \/ Sweep("sched")
    \/ LogSuccess("sched")
    \/ NextDay

SpecCron == Init /\ [][NextCron]_vars

-----------------------------------------------------------------------------
(* A store that may reject writes, and a request that may be malformed      *)

\* app.py:230: request.get_json() raises on a malformed body, inside the try
WebBadRequest ==
    /\ \A q \in Procs : Resting(q)
    /\ runs < MaxRuns
    /\ proc' = [proc EXCEPT !["web"] =
                    [IdleProc EXCEPT !.pc = "except", !.runNo = runs + 1,
                                     !.prevBatch = lastBatch,
                                     !.startSize = Cardinality(store)]]
    /\ runs' = runs + 1
    /\ UNCHANGED <<now, store, nextId, logs, lastBatch, faults, sc, ex, cl, rc>>

\* db.session.commit() of save_campaign raises (app.py:364, 380;
\* scheduler.py:129, 143): the flush is rolled back, the session is left
\* inactive, and the exception leaves the loop of the caller.  In run.py
\* nothing catches it.
WriteRejected(p) ==
    /\ proc[p].pc = "write"
    /\ faults < MaxFaults
    /\ faults' = faults + 1
    /\ proc' = [proc EXCEPT ![p] =
                    IF p = "init" THEN Returned(p)
                    ELSE [@ EXCEPT !.pc = "except", !.sess = "inactive"]]
    /\ UNCHANGED <<now, store, nextId, logs, runs, lastBatch, sc, ex, cl, rc>>

\* A query raises: the lookup of save_campaign (app.py:351-354,
\* scheduler.py:118-121) or the query of the sweep (app.py:398-401,
\* scheduler.py:150-153).  Nothing was flushed, so the session stays usable,
\* and the exception leaves the try block of the caller.  In run.py nothing
\* catches it.
QueryRejected(p) ==
    /\ \/ /\ proc[p].pc = "loop"
          /\ proc[p].i <= Len(proc[p].campaigns_data)
          /\ Truthy(Current(p).campaign_name)
       \/ proc[p].pc = "sweep"
    /\ faults < MaxFaults
    /\ faults' = faults + 1
    /\ proc' = [proc EXCEPT ![p] =
                    IF p = "init" THEN Returned(p)
                    ELSE [@ EXCEPT !.pc = "except"]]
    /\ UNCHANGED <<now, store, nextId, logs, runs, lastBatch, sc, ex, cl, rc>>

\* db.session.commit() of the success log raises (app.py:269, scheduler.py:83)
LogRejected(p) ==
    /\ proc[p].pc = "log"
    /\ faults < MaxFaults
    /\ faults' = faults + 1
    /\ proc' = [proc EXCEPT ![p] = [@ EXCEPT !.pc = "except", !.sess = "inactive"]]
    /\ UNCHANGED <<now, store, nextId, logs, runs, lastBatch, sc, ex, cl, rc>>

\* "except Exception as e:" (app.py:282-301, scheduler.py:91-107): the failed
\* log is added and committed; a commit on an inactive session raises, and
\* "except: pass" swallows it
LogFailure(p) ==
    /\ proc[p].pc = "except"
    /\ logs' = IF proc[p].sess = "ok"
               THEN Append(logs, LogRow("failed", 0, 0, proc[p].runNo))
               ELSE logs
    /\ proc' = [proc EXCEPT ![p] = Returned(p)]
    /\ UNCHANGED <<now, store, nextId, runs, lastBatch, faults, sc, ex, cl, rc>>

\* The commit of the failed log is rejected by the store: "except: pass"
FailureLogRejected(p) ==
    /\ proc[p].pc = "except"
    /\ proc[p].sess = "ok"
    /\ faults < MaxFaults
    /\ faults' = faults + 1
    /\ proc' = [proc EXCEPT ![p] = Returned(p)]
    /\ UNCHANGED <<now, store, nextId, logs, runs, lastBatch, sc, ex, cl, rc>>

NextFault ==
    \/ \E u \in BOOLEAN, pages \in PageInputs : StartWeb(u, pages)
    \/ \E pages \in PageInputs : StartSched(pages)
    \/ StartInit
    \/ WebBadRequest
    \/ \E p \in Procs : Lookup(p)
    \/ \E p \in Procs : Write(p)
    \/ \E p \in Procs : WriteRejected(p)
    \/ \E p \in Procs : QueryRejected(p)
    \/ \E p \in Procs : EndLoop(p)
    \/ InitReturn
    \/ \E p \in Procs : Sweep(p)
    \/ \E p \in Procs : LogSuccess(p)
    \/ \E p \in Procs : LogRejected(p)
    \/ \E p \in Procs : LogFailure(p)
    \/ \E p \in Procs : FailureLogRejected(p)

\* Sequential runs against a store that may reject writes
SpecFault == Init /\ [][NextFault]_vars

-----------------------------------------------------------------------------
(* scrape_all called on its own: every list of URLs the program passes, over  *)
(* pages that are down, raise, or hold up to MaxItems campaigns               *)

MaxItems == 2

AllRoles == {"home", "offers", "bonvoy"}

\* Headings as the pages print them: the same words in two letter cases, padded
\* with whitespace, and a heading of whitespace only
RawNames ==
    { NameA, NameB, <<" ">> \o NameA \o <<" ">>, <<" ", " ">> }

\* The documents a page may hold; an item carries its raw heading as its
\* description and the page as its URL, so that candidates can be told apart
DocsOf(page) ==
    {DocDown, DocError} \cup
    UNION { { DocOk([k \in 1..n |-> Item(names[k], names[k], page, "spa", AllRoles)]) :
                names \in [1..n -> RawNames] } : n \in 0..MaxItems }

ScrapeInputs ==
    { [urls |-> urls, pages |-> Pages(home, offers, bonvoy), out |-> <<>>, done |-> FALSE] :
        urls \in {DEFAULT_URLS, MARRIOTT_CHINA_URLS},
        home \in DocsOf("home"), offers \in DocsOf("offers"), bonvoy \in DocsOf("bonvoy") }

InitScrape ==
    /\ now = 0
    /\ store = {}
    /\ nextId = 1
    /\ logs = <<>>
    /\ proc = [p \in Procs |-> IdleProc]
    /\ runs = 0
    /\ lastBatch = <<>>
    /\ faults = 0
    /\ sc \in ScrapeInputs
    /\ ex = ExInit
    /\ cl = ClInit
    /\ rc = RcInit

\* scraper.scrape_all(urls)
CallScrapeAll ==
    /\ ~sc.done
    /\ sc' = [sc EXCEPT !.out = scrape_all(sc.urls, sc.pages, now), !.done = TRUE]
    /\ UNCHANGED <<now, store, nextId, logs, proc, runs, lastBatch, faults, ex, cl, rc>>

SpecScrape == InitScrape /\ [][CallScrapeAll]_vars

-----------------------------------------------------------------------------
(* scrape_all called on lists of up to MaxUrls URLs, each page holding one    *)
(* campaign per scan: what a URL contributes tells which scan it was given    *)

MaxUrls == 3

\* URLs with the offer word, a member word, both, or neither
ProbeUrls ==
    { <<"default">>, <<"specials", "offers">>, <<"member", "offers">>,
      <<"bonvoy">>, <<"member">>, <<"benefits">> }

\* The page of a URL, as the source_url of its campaigns
PageOf(url) ==
    CASE url = <<"default">> -> "p1"
      [] url = <<"specials", "offers">> -> "p2"
      [] url = <<"member", "offers">> -> "p3"
      [] url = <<"bonvoy">> -> "p4"
      [] url = <<"member">> -> "p5"
      [] OTHER -> "p6"

\* A page with one campaign for the selectors of each scan and one heading of
\* promotional text; the category field tells them apart
ProbeDoc(url) ==
    DocOk([k \in 1..4 |->
              LET scan == <<"home", "offers", "bonvoy", "generic">>[k]
              IN  Item(<<scan, PageOf(url)>>, NoneVal, PageOf(url), scan, {scan})])

RoutingInputs ==
    { [urls |-> urls, pages |-> [u \in ProbeUrls |-> ProbeDoc(u)],
       out |-> <<>>, done |-> FALSE] :
        urls \in UNION { [1..n -> ProbeUrls] : n \in 1..MaxUrls } }

InitRoute ==
    /\ now = 0
    /\ store = {}
    /\ nextId = 1
    /\ logs = <<>>
    /\ proc = [p \in Procs |-> IdleProc]
    /\ runs = 0
    /\ lastBatch = <<>>
    /\ faults = 0
    /\ sc \in RoutingInputs
    /\ ex = ExInit
    /\ cl = ClInit
    /\ rc = RcInit

SpecRoute == InitRoute /\ [][CallScrapeAll]_vars

-----------------------------------------------------------------------------
(* _extract_campaign_from_element called on its own, over nodes of up to      *)
(* MaxElems elements                                                          *)

MaxElems == 2

Tags == {"h1", "h2", "p", "div"}

Classes == {"", "title", "subtitle", "content", "desc"}

\* Texts of 0, 2, 3, 4, 10 and 11 characters once cleaned
RawTexts ==
    { <<" ", " ">>,
      <<"O", "K">>,
      <<" ", "a", "b", "c", " ">>,
      NameA,
      <<"a", "b", "c", "d", "e", "f", "g", "h", "i", "j">>,
      <<"a", "b", "c", "d", "e", " ", " ", "g", "h", "i", "j", "k">> }

Elements == [tag : Tags, class : Classes, text : RawTexts]

Nodes ==
    { [elems |-> elems, href |-> href] :
        elems \in UNION { [1..n -> Elements] : n \in 0..MaxElems },
        href \in {"", "u9"} }

InitExtract ==
    /\ now = 0
    /\ store = {}
    /\ nextId = 1
    /\ logs = <<>>
    /\ proc = [p \in Procs |-> IdleProc]
    /\ runs = 0
    /\ lastBatch = <<>>
    /\ faults = 0
    /\ sc = ScInit
    /\ ex \in { [node |-> node, out |-> NoCampaign, done |-> FALSE] : node \in Nodes }
    /\ cl = ClInit
    /\ rc = RcInit

\* self._extract_campaign_from_element(element, url)
CallExtract ==
    /\ ~ex.done
    /\ ex' = [ex EXCEPT !.out = extract_campaign_from_element(ex.node, "u1", now),
                        !.done = TRUE]
    /\ UNCHANGED <<now, store, nextId, logs, proc, runs, lastBatch, faults, sc, cl, rc>>

SpecExtract == InitExtract /\ [][CallExtract]_vars

-----------------------------------------------------------------------------
(* _detect_category called on its own, over texts of up to MaxWords words     *)

MaxWords == 3

\* Words that hold a keyword of one category (in either letter case), part of
\* a keyword only, or no keyword
Words ==
    { <<"qin", "zi">>, <<"can", "yin">>, <<"chun", "jie">>,
      <<"b", "o", "n", "v", "o", "y">>, <<"B", "O", "N", "V", "O", "Y">>,
      <<"S", "p", "a">>, <<"hun", "li4">>, <<"you2", "hui2">>,
      <<"qin">>, <<"x", " ">> }

RECURSIVE Join(_)
\* The words of a text, written one after the other
Join(words) == IF words = <<>> THEN <<>> ELSE Head(words) \o Join(Tail(words))

Texts ==
    {NoneVal} \cup
    UNION { { Join(words) : words \in [1..n -> Words] } : n \in 0..MaxWords }

InitClassify ==
    /\ now = 0
    /\ store = {}
    /\ nextId = 1
    /\ logs = <<>>
    /\ proc = [p \in Procs |-> IdleProc]
    /\ runs = 0
    /\ lastBatch = <<>>
    /\ faults = 0
    /\ sc = ScInit
    /\ ex = ExInit
    /\ cl \in { [text |-> text, out |-> "general", done |-> FALSE] : text \in Texts }
    /\ rc = RcInit

\* self._detect_category(text)
CallDetectCategory ==
    /\ ~cl.done
    /\ cl' = [cl EXCEPT !.out = detect_category(cl.text), !.done = TRUE]
    /\ UNCHANGED <<now, store, nextId, logs, proc, runs, lastBatch, faults, sc, ex, rc>>

SpecClassify == InitClassify /\ [][CallDetectCategory]_vars

-----------------------------------------------------------------------------
(* The server with the scheduler enabled: the request thread of               *)
(* trigger_scrape and the job thread of scrape_job, neither of which takes a  *)
(* lock (run.py:51-74, scheduler.py:171-188)                                  *)

\* POST /api/scrape arrives while no other such request is being served
ConcStartWeb(use_demo, pages) ==
    /\ Resting("web")
    /\ runs < MaxRuns
    /\ LET scraped == IF use_demo THEN <<>> ELSE scrape_all(DEFAULT_URLS, pages, now)
           empty == ~use_demo /\ scraped = <<>>
           data == IF use_demo \/ empty THEN get_demo_campaigns(now) ELSE scraped
       IN  proc' = [proc EXCEPT !["web"] = Begin("web", data, use_demo \/ empty, empty)]
    /\ runs' = runs + 1
    /\ UNCHANGED <<now, store, nextId, logs, lastBatch, faults, sc, ex, cl, rc>>

\* The job fires while its previous instance is not running
ConcStartSched(pages) ==
    /\ Resting("sched")
    /\ runs < MaxRuns
    /\ LET scraped == scrape_all(MARRIOTT_CHINA_URLS, pages, now)
           empty == scraped = <<>>
           data == IF empty THEN get_demo_campaigns(now) ELSE scraped
       IN  proc' = [proc EXCEPT !["sched"] = Begin("sched", data, empty, empty)]
    /\ runs' = runs + 1
    /\ UNCHANGED <<now, store, nextId, logs, lastBatch, faults, sc, ex, cl, rc>>

\* The INSERT of save_campaign meets a row that another run has committed since
\* the query: unique_campaign_per_competitor raises IntegrityError at the commit
WriteConflict(p) ==
    /\ proc[p].pc = "write"
    /\ proc[p].existing = 0
    /\ UniqueViolation(store, Current(p).campaign_name, CompetitorOf(Current(p)))
    /\ proc' = [proc EXCEPT ![p] = [@ EXCEPT !.pc = "except", !.sess = "inactive"]]
    /\ UNCHANGED <<now, store, nextId, logs, runs, lastBatch, faults, sc, ex, cl, rc>>

NextConc ==
    \/ \E u \in BOOLEAN, pages \in PageInputs : ConcStartWeb(u, pages)
    \/ \E pages \in PageInputs : ConcStartSched(pages)
    \/ \E p \in Procs : Lookup(p)
    \/ \E p \in Procs : Write(p)
    \/ \E p \in Procs : WriteConflict(p)
    \/ \E p \in Procs : EndLoop(p)
    \/ \E p \in Procs : Sweep(p)
    \/ \E p \in Procs : LogSuccess(p)
    \/ \E p \in Procs : LogFailure(p)

\* Request thread and job thread, interleaved at the store operations
SpecConc == Init /\ [][NextConc]_vars

-----------------------------------------------------------------------------
(* save_campaign called on its own: the loop of an invocation over batches of *)
(* up to MaxBatch candidate dictionaries, named or not, against a store that  *)
(* earlier runs have filled                                                   *)

MaxBatch == 2

SaveTime == 2

\* Rows as earlier runs created them at time 0
StoredA == NewRow(1, Campaign(NameA, <<"y">>, "u1", "general", 0), 0)
StoredB == NewRow(2, Campaign(NameB, NoneVal, "u3", "spa", 0), 0)

StoreInputs ==
    { {}, {StoredA}, {[StoredA EXCEPT !.is_active = FALSE]}, {StoredA, StoredB} }

\* Candidate dictionaries: with a name, with the name None or missing, with
\* the name ''
CandidateInputs ==
    { Campaign(name, info, "u2", "spa", SaveTime) :
        name \in {NameA, NameB, NoneVal, <<>>}, info \in {NoneVal, <<"z">>} }

BatchInputs == UNION { [1..n -> CandidateInputs] : n \in 1..MaxBatch }

InitSave ==
    /\ now = SaveTime
    /\ store \in StoreInputs
    /\ nextId = Cardinality(store) + 1
    /\ logs = <<>>
    /\ runs = 1
    /\ \E data \in BatchInputs :
          proc = [p \in Procs |->
                     IF p = "web"
                     THEN [IdleProc EXCEPT !.pc = "loop", !.campaigns_data = data,
                                           !.i = 1, !.runNo = 1,
                                           !.startSize = Cardinality(store)]
                     ELSE IdleProc]
    /\ lastBatch = <<>>
    /\ faults = 0
    /\ sc = ScInit
    /\ ex = ExInit
    /\ cl = ClInit
    /\ rc = RcInit

NextSave ==
    \/ \E p \in Procs : Lookup(p)
    \/ \E p \in Procs : Write(p)

SpecSave == InitSave /\ [][NextSave]_vars

-----------------------------------------------------------------------------
(* The two reconcilers side by side: app.save_campaign with                  *)
(* app.mark_inactive_campaigns, and CampaignScheduler._save_campaign with    *)
(* _mark_inactive_campaigns, each written from its own source and run on the *)
(* same rows, the same batch and the same clock                              *)

\* app.py:332-381, save_campaign: the classification, the rows after the
\* call and the next free id
save_campaign(rows, id, campaign_data, t) ==
    IF ~Truthy(campaign_data.campaign_name)
    THEN [result |-> "skipped", rows |-> rows, id |-> id]
    ELSE LET existing == FindExisting(rows, campaign_data.campaign_name,
                                      CompetitorOf(campaign_data))
         IN  IF existing # 0
             THEN LET row == RowById(rows, existing) IN
                  [result |-> "updated",
                   rows |-> (rows \ {row}) \cup {UpdatedRow(row, campaign_data, t)},
                   id |-> id]
             ELSE [result |-> "new",
                   rows |-> rows \cup {NewRow(id, campaign_data, t)},
                   id |-> id + 1]

RECURSIVE AppReconcile(_, _, _, _, _, _)
\* app.py:248-258: the loop over campaigns_data, then "if campaigns_data:"
\* mark_inactive_campaigns(campaigns_data)
AppReconcile(rows, id, data, k, results, t) ==
    IF k > Len(data)
    THEN [results |-> results,
          rows |-> IF data # <<>> THEN MarkInactive(rows, data, t) ELSE rows]
    ELSE LET s == save_campaign(rows, id, data[k], t)
         IN  AppReconcile(s.rows, s.id, data, k + 1, Append(results, s.result), t)

\* A variant of Scheduler_save_campaign whose update leaves is_active alone
Scheduler_save_campaign_keeps_flag(rows, id, campaign_data, t) ==
    IF ~Truthy(campaign_data.campaign_name)
    THEN [result |-> "skipped", rows |-> rows, id |-> id]
    ELSE LET hit == {r \in rows :
                        /\ r.campaign_name = campaign_data.campaign_name
                        /\ r.competitor_name = campaign_data.competitor_name}
         IN  IF hit # {}
             THEN LET existing == CHOOSE r \in hit : \A q \in hit : r.id <= q.id IN
                  [result |-> "updated",
                   rows |-> (rows \ {existing}) \cup
                       {[existing EXCEPT
                           !.campaign_info = PyOr(campaign_data.campaign_info, @),
                           !.source_url = IF campaign_data.source_url # ""
                                          THEN campaign_data.source_url ELSE @,
                           !.category = IF campaign_data.category # ""
                                        THEN campaign_data.category ELSE @,
                           !.last_seen_date = t]},
                   id |-> id]
             ELSE [result |-> "new",
                   rows |-> rows \cup
                       {[id |-> id,
                         campaign_name |-> campaign_data.campaign_name,
                         campaign_info |-> campaign_data.campaign_info,
                         source_url |-> campaign_data.source_url,
                         category |-> campaign_data.category,
                         competitor_name |-> campaign_data.competitor_name,
                         scraped_date |-> campaign_data.scraped_date,
                         last_seen_date |-> t,
                         is_active |-> TRUE]},
                   id |-> id + 1]

\* scheduler.py:109-144, CampaignScheduler._save_campaign
Scheduler_save_campaign(rows, id, campaign_data, t) ==
    IF ~Truthy(campaign_data.campaign_name)
    THEN [result |-> "skipped", rows |-> rows, id |-> id]
    ELSE LET hit == {r \in rows :
                        /\ r.campaign_name = campaign_data.campaign_name
                        /\ r.competitor_name = campaign_data.competitor_name}
         IN  IF hit # {}
             THEN LET existing == CHOOSE r \in hit : \A q \in hit : r.id <= q.id IN
                  [result |-> "updated",
                   rows |-> (rows \ {existing}) \cup
                       {[existing EXCEPT
                           !.campaign_info = PyOr(campaign_data.campaign_info, @),
                           !.source_url = IF campaign_data.source_url # ""
                                          THEN campaign_data.source_url ELSE @,
                           !.category = IF campaign_data.category # ""
                                        THEN campaign_data.category ELSE @,
                           !.last_seen_date = t,
                           !.is_active = TRUE]},
                   id |-> id]
             ELSE [result |-> "new",
                   rows |-> rows \cup
                       {[id |-> id,
                         campaign_name |-> campaign_data.campaign_name,
                         campaign_info |-> campaign_data.campaign_info,
                         source_url |-> campaign_data.source_url,
                         category |-> campaign_data.category,
                         competitor_name |-> campaign_data.competitor_name,
                         scraped_date |-> campaign_data.scraped_date,
                         last_seen_date |-> t,
                         is_active |-> TRUE]},
                   id |-> id + 1]

\* scheduler.py:146-161, CampaignScheduler._mark_inactive_campaigns
Scheduler_mark_inactive_campaigns(rows, current_campaigns, t) ==
    LET current_names ==
            {current_campaigns[k].campaign_name : k \in
                {j \in DOMAIN current_campaigns :
                    Truthy(current_campaigns[j].campaign_name)}}
        active_campaigns == {r \in rows : r.competitor_name = "Marriott" /\ r.is_active}
        days_since_seen(r) == (t - r.last_seen_date) \div TicksPerDay
    IN  {IF /\ r \in active_campaigns
            /\ r.campaign_name \notin current_names
            /\ days_since_seen(r) > 3
         THEN [r EXCEPT !.is_active = FALSE] ELSE r : r \in rows}

RECURSIVE SchedReconcile(_, _, _, _, _, _)
\* scheduler.py:63-72: the loop over campaigns_data, then "if campaigns_data:"
\* self._mark_inactive_campaigns(campaigns_data)
SchedReconcile(rows, id, data, k, results, t) ==
    IF k > Len(data)
    THEN [results |-> results,
          rows |-> IF data # <<>>
                   THEN Scheduler_mark_inactive_campaigns(rows, data, t) ELSE rows]
    ELSE LET s == Scheduler_save_campaign(rows, id, data[k], t)
         IN  SchedReconcile(s.rows, s.id, data, k + 1, Append(results, s.result), t)

\* The clock of the reconciliation: the day the stored rows were last seen,
\* and a day on which they are past the window
ReconcileTimes == {SaveTime, (StaleDays + 1) * TicksPerDay}

ReconcileInputs ==
    { [rows |-> rows, data |-> data, t |-> t, web |-> NoOutcome,
       sched |-> NoOutcome, done |-> FALSE] :
        rows \in StoreInputs, data \in BatchInputs, t \in ReconcileTimes }

InitEquiv ==
    /\ now = 0
    /\ store = {}
    /\ nextId = 1
    /\ logs = <<>>
    /\ proc = [p \in Procs |-> IdleProc]
    /\ runs = 0
    /\ lastBatch = <<>>
    /\ faults = 0
    /\ sc = ScInit
    /\ ex = ExInit
    /\ cl = ClInit
    /\ rc \in ReconcileInputs

\* Both reconcilers are run on the same rows, batch and clock
CallReconcile ==
    /\ ~rc.done
    /\ rc' = [rc EXCEPT
                 !.web = AppReconcile(rc.rows, Cardinality(rc.rows) + 1, rc.data,
                                      1, <<>>, rc.t),
                 !.sched = SchedReconcile(rc.rows, Cardinality(rc.rows) + 1, rc.data,
                                          1, <<>>, rc.t),
                 !.done = TRUE]
    /\ UNCHANGED <<now, store, nextId, logs, proc, runs, lastBatch, faults, sc, ex, cl>>

SpecEquiv == InitEquiv /\ [][CallReconcile]_vars

-----------------------------------------------------------------------------
(* Properties *)

InRun(p) == ~Resting(p)

\* The identities (name, competitor) of the candidates of a batch
Identities(data) ==
    {<<data[k].campaign_name, data[k].competitor_name>> : k \in DOMAIN data}

IdentityOf(r) == <<r.campaign_name, r.competitor_name>>

\* The row of the next state that has the primary key of r
Same(r, q) == q.id = r.id

\* C1: a run whose scrape_all result is empty never changes a persisted
\* record's active flag from true to false (no sweep in such a run), for the
\* on-demand run and for the scheduled run.
C1_EmptyScrapeDeactivatesNothing ==
    [][(\E p \in {"web", "sched"} : InRun(p) /\ proc[p].scrape_empty)
         => \A r \in store : r.is_active =>
                \E q \in store' : Same(r, q) /\ q.is_active]_vars

\* C2: in a sweep with a non-empty batch, every record of competitor Marriott
\* that is active before the sweep and whose identity (name, competitor) is the
\* identity of no candidate of the batch is inactive after the sweep if and
\* only if the whole days elapsed from its lastSeenAt to the sweep exceed 3.
C2_SweepDeactivatesExactlyStale ==
    [][\A p \in Procs :
         (proc[p].pc = "sweep" /\ proc'[p].pc = "log") =>
            \A r \in store :
               ( /\ r.competitor_name = "Marriott"
                 /\ r.is_active
                 /\ IdentityOf(r) \notin Identities(proc[p].campaigns_data) )
               => \E q \in store' :
                     /\ Same(r, q)
                     /\ (~q.is_active) <=> (DaysSince(now, r.last_seen_date) > 3)]_vars

C2_Witness ==
    \E p \in Procs :
        /\ proc[p].pc = "log"
        /\ proc[p].swept
        /\ proc[p].campaigns_data # <<>>
        /\ \E r \in store :
              /\ r.competitor_name = "Marriott"
              /\ IdentityOf(r) \notin Identities(proc[p].campaigns_data)
              /\ ~r.is_active
              /\ DaysSince(proc[p].sweepAt, r.last_seen_date) > 3

\* The scheduled run of today has swept
AfterTodaysRun == runs = Today + 1 /\ proc["sched"].pc \in {"log", "done"}

\* The number of daily runs since the day a record was last seen
DaysUnseen(r) == Today - (r.last_seen_date \div TicksPerDay)

C4_Reactivation ==
    [][\A p \in Procs :
         /\ (proc[p].pc = "write" /\ proc'[p].pc = "loop") =>
               \A r \in store :
                  (IdentityOf(r) = IdentityOf(Current(p)) /\ ~r.is_active) =>
                     /\ \E q \in store' :
                           /\ Same(r, q)
                           /\ q.is_active
                           /\ q.last_seen_date = now
                           /\ q.last_seen_date > r.last_seen_date
                     /\ proc'[p].results[proc[p].i] = "updated"
         /\ (proc[p].pc = "sweep" /\ proc'[p].pc = "log") =>
               \A id \in proc[p].revived :
                  \E q \in store' : q.id = id /\ q.is_active]_vars

C4_Witness ==
    \E p \in Procs :
        /\ proc[p].pc = "log"
        /\ proc[p].revived # {}
        /\ \A id \in proc[p].revived :
              \E q \in store : q.id = id /\ q.is_active /\ q.last_seen_date = now

\* The run of p has processed its batch and is about to report
Reconciled(p) == proc[p].pc \in {"log", "ret"}

\* C5: when a run reconciles the batch the previous run reconciled, it
\* classifies every candidate as 'updated' and none as 'new', leaves the number
\* of records unchanged, and every record whose identity is in the batch is
\* active afterwards.
C5_SecondRunOnlyUpdates ==
    \A p \in Procs :
        ( /\ Reconciled(p)
          /\ proc[p].prevBatch # <<>>
          /\ Payload(proc[p].campaigns_data) = Payload(proc[p].prevBatch) )
        => /\ Len(proc[p].results) = Len(proc[p].campaigns_data)
           /\ \A k \in DOMAIN proc[p].results : proc[p].results[k] = "updated"
           /\ proc[p].new_count = 0
           /\ Cardinality(store) = proc[p].startSize
           /\ \A r \in store :
                 IdentityOf(r) \in Identities(proc[p].campaigns_data) => r.is_active

C5_Witness ==
    \E p \in Procs :
        /\ Reconciled(p)
        /\ proc[p].prevBatch # <<>>
        /\ Payload(proc[p].campaigns_data) = Payload(proc[p].prevBatch)
        /\ proc[p].updated_count = 2
        /\ proc[p].campaigns_data[1].scraped_date > proc[p].prevBatch[1].scraped_date

\* C6: no two persisted records share the pair (name, competitor), in every
\* state of every sequence of on-demand, scheduled and --init runs.
C6_IdentityUnique ==
    \A r1 \in store, r2 \in store : IdentityOf(r1) = IdentityOf(r2) => r1 = r2

C6_Witness ==
    /\ Cardinality(store) = 4
    /\ \E p \in Procs : Reconciled(p) /\ proc[p].updated_count = 2
    /\ \A p \in Procs : proc[p].pc \in {"idle", "done", "log", "ret"}
    /\ runs = 3

\* The ScrapeLog rows written by the invocation with this number
LogsOf(run) == {k \in DOMAIN logs : logs[k].run = run}

\* C7: every invocation of trigger_scrape or scrape_job has appended exactly
\* one ScrapeLog entry when it returns, also when a store write raised.
C7_ExactlyOneLogPerRun ==
    \A p \in {"web", "sched"} :
        proc[p].pc = "done" => Cardinality(LogsOf(proc[p].runNo)) = 1

\* C8: a run leaves its loop over the batch only when no candidate is left:
\* a rejected write of the i-th candidate does not stop the candidates after i.
C8_RejectedWriteDoesNotStopBatch ==
    [][\A p \in {"web", "sched"} :
         (proc[p].pc \in {"loop", "write"} /\ proc'[p].pc \notin {"loop", "write"})
         => \/ proc[p].pc = "loop" /\ proc[p].i > Len(proc[p].campaigns_data)
            \/ proc[p].pc = "write" /\ proc[p].i = Len(proc[p].campaigns_data)]_vars


-----------------------------------------------------------------------------
(* C9: deduplication in scrape_all *)

RECURSIVE AllFound(_, _, _)
\* Every candidate of the pages scanned without an exception, in URL-list
\* order and, within a page, in discovery order
AllFound(urls, pages, t) ==
    IF urls = <<>> THEN <<>>
    ELSE LET got == ScanPage(RoleOf(Head(urls)), pages[Head(urls)], t)
         IN  (IF got.raised THEN <<>> ELSE got.value) \o AllFound(Tail(urls), pages, t)

\* Name normalization with case folding
Folded(name) == Lower(clean_text(name))

\* The positions of cat that hold the first candidate of their name, names
\* being compared through norm
Firsts(cat, norm(_)) ==
    {k \in DOMAIN cat :
        \A m \in 1..(k - 1) : norm(cat[m].campaign_name) # norm(cat[k].campaign_name)}

\* out is exactly the first candidates of cat, in cat's order, and holds no
\* two names equal through norm
FirstWins(out, cat, norm(_)) ==
    /\ \A i, j \in DOMAIN out :
           i # j => norm(out[i].campaign_name) # norm(out[j].campaign_name)
    /\ Len(out) = Cardinality(Firsts(cat, norm))
    /\ \A j \in DOMAIN out :
           \E k \in Firsts(cat, norm) :
               /\ out[j] = cat[k]
               /\ Cardinality({m \in Firsts(cat, norm) : m < k}) = j - 1

\* C9 as stated: the result of scrape_all holds no two candidates whose names
\* are equal after whitespace collapsing and case folding; of the candidates
\* of one such name the first in URL-list order, then discovery order,
\* survives, and the result keeps that order.
C9_DedupFoldsCase ==
    sc.done => FirstWins(sc.out, AllFound(sc.urls, sc.pages, now), Folded)

\* C9, amended: the result of scrape_all holds no two candidates whose names
\* are equal after whitespace normalization, letter case being significant;
\* of the candidates of one such name the first in URL-list order, then
\* discovery order, survives, and the result keeps that order.
C9_DedupByCleanedName ==
    sc.done => FirstWins(sc.out, AllFound(sc.urls, sc.pages, now), clean_text)

\* a call that dropped a later page's candidate of a name already seen and
\* kept two names that differ in letter case only
C9_Witness ==
    /\ sc.done
    /\ sc.urls # <<>>
    /\ Len(sc.out) < Len(AllFound(sc.urls, sc.pages, now))
    /\ \E i, j \in DOMAIN sc.out :
           /\ i < j
           /\ sc.out[i].source_url # sc.out[j].source_url
           /\ sc.out[i].campaign_name # sc.out[j].campaign_name
           /\ Folded(sc.out[i].campaign_name) = Folded(sc.out[j].campaign_name)
    /\ \E k \in DOMAIN AllFound(sc.urls, sc.pages, now) :
           \A j \in DOMAIN sc.out :
               AllFound(sc.urls, sc.pages, now)[k].source_url # sc.out[j].source_url

-----------------------------------------------------------------------------
(* C10: the name guard of _extract_campaign_from_element *)

\* The cleaned texts of the elements the name selectors pick in the node
NameTexts(node) ==
    { clean_text(node.elems[SelectOne(node, name_selectors[k])].text) :
        k \in {j \in DOMAIN name_selectors : SelectOne(node, name_selectors[j]) # 0} }

\* C10: a node whose matching name selectors all give a normalized text of
\* at most 3 characters yields no campaign, and every campaign the extractor
\* emits has a name longer than 3 characters.
C10_NameLongerThanThree ==
    ex.done =>
        /\ (\A n \in NameTexts(ex.node) : Len(n) <= MinNameLen) => ~ex.out.found
        /\ ex.out.found => Len(ex.out.campaign.campaign_name) > MinNameLen


-----------------------------------------------------------------------------
(* C11: the category classifier *)

\* keyword occurs in text at some position, letters compared without case
OccursIgnoringCase(keyword, text) ==
    \E k \in 0..(Len(text) - Len(keyword)) :
        \A j \in DOMAIN keyword : LowerChar(text[k + j]) = LowerChar(keyword[j])

\* The positions of the table whose category has a keyword in the text
MatchingCategories(text) ==
    {k \in DOMAIN CATEGORY_KEYWORDS :
        \E j \in DOMAIN CATEGORY_KEYWORDS[k][2] :
            OccursIgnoringCase(CATEGORY_KEYWORDS[k][2][j], text)}

\* C11: the classifier returns the earliest category of the table, in its
\* declared order, one of whose keywords occurs in the text without regard
\* to letter case, and 'general' when the text is empty or holds no keyword.
C11_FirstMatchingCategory ==
    /\ [k \in DOMAIN CATEGORY_KEYWORDS |-> CATEGORY_KEYWORDS[k][1]] =
           <<"family", "dining", "seasonal", "rewards", "travel", "business",
             "spa", "wedding", "promotion">>
    /\ cl.done =>
        LET hits == IF Truthy(cl.text) THEN MatchingCategories(cl.text) ELSE {}
        IN  IF hits = {} THEN cl.out = "general"
            ELSE \E k \in hits :
                    /\ \A m \in hits : k <= m
                    /\ cl.out = CATEGORY_KEYWORDS[k][1]

\* a text with keywords of two categories, the later one first in the text
\* and the earlier one in upper case, classified as the earlier category
C11_Witness ==
    /\ cl.done
    /\ cl.text = <<"S", "p", "a">> \o <<"B", "O", "N", "V", "O", "Y">>
    /\ Cardinality(MatchingCategories(cl.text)) = 2
    /\ cl.out = "rewards"


-----------------------------------------------------------------------------
(* C12: merge of the fields of a matched record *)

\* The candidate whose save has just returned to the loop of p
Saved(p) == proc[p].campaigns_data[proc[p].i - 1]

\* C12: when a candidate matches a persisted record, description, sourceUrl
\* and category each take the incoming value if it is non-empty and keep the
\* previous value otherwise, so that no populated field becomes empty;
\* lastSeenAt becomes the current time and active becomes true.
C12_MergeKeepsPopulatedFields ==
    [][\A p \in Procs :
         (proc[p].pc = "write" /\ proc'[p].pc = "loop" /\ proc[p].existing # 0) =>
            LET r == RowById(store, proc[p].existing)
                c == Current(p)
            IN  \E q \in store' :
                   /\ q.id = r.id
                   /\ q.campaign_info = IF Truthy(c.campaign_info) THEN c.campaign_info
                                        ELSE r.campaign_info
                   /\ q.source_url = IF c.source_url # "" THEN c.source_url
                                     ELSE r.source_url
                   /\ q.category = IF c.category # "" THEN c.category ELSE r.category
                   /\ Truthy(r.campaign_info) => Truthy(q.campaign_info)
                   /\ r.source_url # "" => q.source_url # ""
                   /\ r.category # "" => q.category # ""
                   /\ q.last_seen_date = now
                   /\ q.is_active]_vars

\* a candidate without a description has just updated a record that keeps its
\* description and takes the candidate's URL and category
C12_Witness ==
    \E p \in Procs :
        /\ proc[p].pc = "loop"
        /\ proc[p].i > 1
        /\ proc[p].results[proc[p].i - 1] = "updated"
        /\ ~Truthy(Saved(p).campaign_info)
        /\ \E q \in store :
               /\ IdentityOf(q) = IdentityOf(Saved(p))
               /\ Truthy(q.campaign_info)
               /\ q.source_url = Saved(p).source_url
               /\ q.category = Saved(p).category
               /\ q.category # "general"
               /\ q.last_seen_date = now


-----------------------------------------------------------------------------
(* C13: creation of a record *)

\* A save of p's current candidate, whose identity is not in the store, that
\* adds exactly one row, active, first seen at the candidate's discovery and
\* last seen at lastSeen, and that is counted 'new'
CreatesOne(p, lastSeen) ==
    \E q \in store' :
        /\ store' = store \cup {q}
        /\ q \notin store
        /\ IdentityOf(q) = IdentityOf(Current(p))
        /\ q.is_active
        /\ q.scraped_date = Current(p).scraped_date
        /\ q.last_seen_date = lastSeen
        /\ proc'[p].results[proc[p].i] = "new"
        /\ proc'[p].new_count = proc[p].new_count + 1

\* The save of a named candidate whose identity no row of the store has
CreateStep(p) ==
    /\ proc[p].pc = "write"
    /\ proc'[p].pc = "loop"
    /\ \A r \in store : IdentityOf(r) # IdentityOf(Current(p))

\* C13 as stated: a named candidate whose identity is absent from the store
\* creates exactly one record, active, with firstSeenAt and lastSeenAt both
\* equal to the candidate's discoveredAt, and is classified 'new'.
C13_CreatedSeenAtDiscovery ==
    [][\A p \in Procs : CreateStep(p) => CreatesOne(p, Current(p).scraped_date)]_vars

\* C13, amended: a named candidate whose identity is absent from the store
\* creates exactly one record, active, with firstSeenAt equal to the
\* candidate's discoveredAt and lastSeenAt equal to the time of the save,
\* which is not earlier than discoveredAt, and is classified 'new'.
C13_CreatedSeenAtSave ==
    [][\A p \in Procs :
         CreateStep(p) => /\ CreatesOne(p, now)
                          /\ now >= Current(p).scraped_date]_vars

\* a candidate has just been saved as 'new' some time after its discovery
C13_Witness ==
    \E p \in Procs :
        /\ proc[p].pc = "loop"
        /\ proc[p].i > 1
        /\ proc[p].results[proc[p].i - 1] = "new"
        /\ \E q \in store :
               /\ q.id = nextId - 1
               /\ IdentityOf(q) = IdentityOf(Saved(p))
               /\ q.is_active
               /\ q.scraped_date = Saved(p).scraped_date
               /\ q.last_seen_date = now
               /\ q.scraped_date < q.last_seen_date


-----------------------------------------------------------------------------
(* C14: candidates without a name *)

\* p is about to save a candidate whose name is missing or empty
AtNameless(p) ==
    /\ proc[p].pc = "loop"
    /\ proc[p].i <= Len(proc[p].campaigns_data)
    /\ ~Truthy(Current(p).campaign_name)

\* C14: a candidate whose name is missing or empty is classified 'skipped':
\* its save creates no record, modifies no record and adds to neither the
\* new count nor the updated count; no persisted record has an empty name.
C14_NamelessIsSkipped ==
    [][/\ \A p \in Procs :
            (AtNameless(p) /\ proc'[p] # proc[p]) =>
               /\ proc'[p].pc = "loop"
               /\ proc'[p].i = proc[p].i + 1
               /\ proc'[p].results = Append(proc[p].results, "skipped")
               /\ proc'[p].new_count = proc[p].new_count
               /\ proc'[p].updated_count = proc[p].updated_count
               /\ store' = store
               /\ nextId' = nextId
       /\ \A r \in store' : Truthy(r.campaign_name)]_vars

\* a batch of a nameless candidate followed by a named one has been saved:
\* the first skipped, the second counted, no row without a name
C14_Witness ==
    \E p \in Procs :
        /\ proc[p].pc = "loop"
        /\ proc[p].i = 3
        /\ ~Truthy(proc[p].campaigns_data[1].campaign_name)
        /\ proc[p].results[1] = "skipped"
        /\ proc[p].results[2] \in {"new", "updated"}
        /\ proc[p].new_count + proc[p].updated_count = 1
        /\ Cardinality(store) = proc[p].startSize + proc[p].new_count


-----------------------------------------------------------------------------
(* C15: records are never deleted, and are deactivated by the sweep only *)

\* C15: no step removes a persisted identity, and a record's active flag goes
\* from true to false only in a staleness sweep whose batch does not hold the
\* record's identity and that runs more than 3 whole days after the record's
\* lastSeenAt.
C15_NeverDeletedOnlySweepDeactivates ==
    [][\A r \in store :
         /\ \E q \in store' : Same(r, q) /\ IdentityOf(q) = IdentityOf(r)
         /\ \A q \in store' :
               (Same(r, q) /\ r.is_active /\ ~q.is_active) =>
                  \E p \in Procs :
                     /\ proc[p].pc = "sweep"
                     /\ proc'[p].pc = "log"
                     /\ IdentityOf(r) \notin Identities(proc[p].campaigns_data)
                     /\ DaysSince(now, r.last_seen_date) > StaleDays]_vars

\* after several runs the store holds every row ever created, one of them
\* deactivated and others active
C15_Witness ==
    /\ \A p \in Procs : Resting(p)
    /\ runs >= 2
    /\ Cardinality(store) >= 3
    /\ Cardinality(store) = nextId - 1
    /\ \E r \in store : ~r.is_active
    /\ \E r \in store : r.is_active


-----------------------------------------------------------------------------
(* C16: mutual exclusion of runs *)

\* p has made its first store read and has not yet returned
Reconciling(p) ==
    \/ proc[p].pc \in {"write", "sweep", "log", "except"}
    \/ proc[p].pc = "loop" /\ proc[p].i > 1

\* C16: no two reconciliation runs are in progress at the same time: while
\* one of the scheduled run and the on-demand run is between its first store
\* read and its audit-log write, the other has made no store read or write.
C16_RunsMutuallyExclusive ==
    ~(Reconciling("web") /\ Reconciling("sched"))


-----------------------------------------------------------------------------
(* C17: failures of single URLs in scrape_all *)

\* The result holds a candidate found at the page of the k-th URL
Contributes(k) ==
    \E j \in DOMAIN sc.out : sc.out[j].source_url = RoleOf(sc.urls[k])

\* C17: in scrape_all a URL whose fetch fails or whose scan raises contributes
\* no candidate and does not keep any later URL from being scanned: the name
\* of every candidate of every URL scanned without failure is in the result.
C17_FailedUrlDoesNotStopOthers ==
    sc.done =>
        \A k \in DOMAIN sc.urls :
            LET doc == sc.pages[sc.urls[k]] IN
            /\ doc.status # "ok" => ~Contributes(k)
            /\ doc.status = "ok" =>
                  \A m \in DOMAIN doc.items :
                      Truthy(clean_text(doc.items[m].name)) =>
                          \E j \in DOMAIN sc.out :
                              sc.out[j].campaign_name = clean_text(doc.items[m].name)

\* a call whose first URL raised, whose second URL could not be fetched and
\* whose third URL gave the whole result
C17_Witness ==
    /\ sc.done
    /\ Len(sc.urls) = 3
    /\ sc.pages[sc.urls[1]].status = "error"
    /\ sc.pages[sc.urls[2]].status = "unavailable"
    /\ sc.pages[sc.urls[3]].status = "ok"
    /\ Len(sc.out) = 2
    /\ Contributes(3)


-----------------------------------------------------------------------------
(* C18: the records of the batch are exempt from the sweep *)

\* C18: the staleness sweep of a run deactivates no record whose identity is
\* in the run's batch, and when a run with a non-empty batch completes every
\* persisted record whose identity is in the batch is active, however long
\* ago the record was last seen before the run.
C18_BatchRecordsStayActive ==
    [][\A p \in {"web", "sched"} :
         LET inBatch(r) == IdentityOf(r) \in Identities(proc[p].campaigns_data) IN
         /\ (proc[p].pc = "sweep" /\ proc'[p].pc = "log") =>
               \A r \in store :
                  inBatch(r) => \E q \in store' : Same(r, q) /\ q.is_active = r.is_active
         /\ (proc[p].pc = "log" /\ proc'[p].pc = "done"
                                /\ proc[p].campaigns_data # <<>>) =>
               \A r \in store' : inBatch(r) => r.is_active]_vars

\* a run has swept: a record of its batch that earlier sweeps had found stale
\* is active, next to a stale record outside the batch that is not
C18_Witness ==
    \E p \in {"web", "sched"} :
        /\ proc[p].pc = "log"
        /\ proc[p].swept
        /\ \E r \in store :
              /\ r.id \in proc[p].revived
              /\ IdentityOf(r) \in Identities(proc[p].campaigns_data)
              /\ r.is_active
        /\ \E r \in store :
              /\ IdentityOf(r) \notin Identities(proc[p].campaigns_data)
              /\ ~r.is_active
              /\ DaysSince(proc[p].sweepAt, r.last_seen_date) > StaleDays


-----------------------------------------------------------------------------
(* C19: the description guard of _extract_campaign_from_element *)

RECURSIVE NameNode(_, _, _)
\* The element whose text the name loop ends with (0 for none)
NameNode(node, k, e) ==
    IF k > Len(name_selectors) THEN e
    ELSE LET f == SelectOne(node, name_selectors[k]) IN
         IF f = 0 THEN NameNode(node, k + 1, e)
         ELSE IF Len(clean_text(node.elems[f].text)) > MinNameLen THEN f
         ELSE NameNode(node, k + 1, f)

RECURSIVE InfoNode(_, _, _)
\* The element whose text the info loop ends with (0 for none)
InfoNode(node, k, e) ==
    IF k > Len(info_selectors) THEN e
    ELSE LET f == SelectOne(node, info_selectors[k]) IN
         IF f = 0 \/ ~DiffersFromFirstH1(node, f) THEN InfoNode(node, k + 1, e)
         ELSE IF Len(clean_text(node.elems[f].text)) > MinInfoLen THEN f
         ELSE InfoNode(node, k + 1, f)

\* C19: every record the element extractor emits has no description, or a
\* description of normalized length greater than 10 that was not taken from
\* the element used for the name; a match of a description selector of
\* normalized length 10 or less is never emitted as the description.
C19_DescriptionLongerThanTen ==
    (ex.done /\ ex.out.found) =>
        \/ ~Truthy(ex.out.campaign.campaign_info)
        \/ /\ Len(ex.out.campaign.campaign_info) > MinInfoLen
           /\ InfoNode(ex.node, 1, 0) # NameNode(ex.node, 1, 0)


-----------------------------------------------------------------------------
(* C20: routing of the URLs to the scans *)

\* The scans whose campaigns the page of url has in the result
ScansOf(url) ==
    {sc.out[j].category : j \in {i \in DOMAIN sc.out : sc.out[i].source_url = PageOf(url)}}

-----------------------------------------------------------------------------
(* C21: what a save leaves alone *)

\* C21: updating an existing record from a candidate leaves that record's
\* name, competitor and scraped_date unchanged and leaves every other
\* persisted record unchanged; creating a record leaves every existing record
\* unchanged.
C21_SaveFrame ==
    [][\A p \in Procs :
         (proc[p].pc = "write" /\ proc'[p].pc = "loop") =>
            IF proc[p].existing # 0
            THEN LET r == RowById(store, proc[p].existing) IN
                 \E q \in store' :
                    /\ q.id = r.id
                    /\ q.campaign_name = r.campaign_name
                    /\ q.competitor_name = r.competitor_name
                    /\ q.scraped_date = r.scraped_date
                    /\ store' \ {q} = store \ {r}
            ELSE /\ store \subseteq store'
                 /\ Cardinality(store') = Cardinality(store) + 1]_vars

\* a batch has created one record next to an existing one and then updated
\* the existing one, which keeps a discovery time that is not the candidate's
C21_Witness ==
    \E p \in Procs :
        /\ proc[p].pc = "loop"
        /\ proc[p].results = <<"new", "updated">>
        /\ Cardinality(store) = 2
        /\ \E q \in store :
               /\ IdentityOf(q) = IdentityOf(Saved(p))
               /\ q.scraped_date # Saved(p).scraped_date
               /\ q.last_seen_date = now
        /\ \E o \in store :
               /\ IdentityOf(o) = IdentityOf(proc[p].campaigns_data[1])
               /\ o.scraped_date = proc[p].campaigns_data[1].scraped_date


-----------------------------------------------------------------------------
(* C22: the counts of a ScrapeLog entry *)

\* How many candidates of a run were classified as kind
CountOf(results, kind) == Cardinality({k \in DOMAIN results : results[k] = kind})

\* The records the run of p has created so far: runs are sequential and no
\* row is ever deleted
CreatedBy(p) == Cardinality(store) - proc[p].startSize

\* C22: for every ScrapeLog entry, new_campaigns equals the number of
\* persisted records created by the run that wrote it; for an entry with
\* status 'success' the candidates classified new, updated and skipped sum to
\* campaigns_found; an entry with status 'failed' records 0 and 0 and belongs
\* to a run that created no record.
C22_LogCountsMatchRun ==
    [][\A p \in Procs :
         (Len(logs') = Len(logs) + 1 /\ proc[p].pc \in {"log", "except"}
                                     /\ proc'[p].pc = "done") =>
            LET e == logs'[Len(logs')] IN
            /\ e.new_campaigns = CreatedBy(p)
            /\ e.status = "success" =>
                  CountOf(proc[p].results, "new") + CountOf(proc[p].results, "updated")
                      + CountOf(proc[p].results, "skipped") = e.campaigns_found
            /\ e.status = "failed" =>
                  /\ e.new_campaigns = 0
                  /\ e.campaigns_found = 0
                  /\ CreatedBy(p) = 0]_vars


-----------------------------------------------------------------------------
(* C23: the two reconcilers agree *)

\* C23: started from the same store state with the same batch and the same
\* clock, app.save_campaign followed by app.mark_inactive_campaigns and
\* CampaignScheduler._save_campaign followed by _mark_inactive_campaigns
\* produce the same per-candidate classifications and the same final store.
C23_ReconcilersAgree ==
    rc.done =>
        /\ rc.web.results = rc.sched.results
        /\ rc.web.rows = rc.sched.rows

\* both reconcilers have revived a record from the batch, skipped a nameless
\* candidate and deactivated a record the batch does not name
C23_Witness ==
    /\ rc.done
    /\ rc.sched.results = <<"updated", "skipped">>
    /\ \E r \in rc.rows, q \in rc.sched.rows :
          /\ q.id = r.id /\ r.is_active /\ ~q.is_active
    /\ \E r \in rc.rows, q \in rc.sched.rows :
          /\ q.id = r.id /\ q.last_seen_date = rc.t /\ r.last_seen_date # rc.t
    /\ rc.web.rows # rc.rows


-----------------------------------------------------------------------------
(* C24: an on-demand run and a scheduled run interleaved *)

\* The run of p is about to insert an identity that it found absent and that
\* another run has inserted since
LostRace(p) ==
    /\ proc[p].pc = "write"
    /\ proc[p].existing = 0
    /\ UniqueViolation(store, Current(p).campaign_name, CompetitorOf(Current(p)))

\* C24: under every interleaving of the store reads and writes of an
\* on-demand run and a scheduled run, the store never holds two records with
\* the same (name, competitor): when both runs look up the same absent
\* identity before either inserts, the second insert is rejected by the
\* unique constraint, and the run that issued it ends with a ScrapeLog entry
\* of status 'failed'.
C24_LostInsertEndsInFailedEntry ==
    [][/\ \A r1 \in store', r2 \in store' :
             IdentityOf(r1) = IdentityOf(r2) => r1 = r2
       /\ \A p \in Procs :
             (LostRace(p) /\ proc'[p] # proc[p]) =>
                 /\ store' = store
                 /\ proc'[p].pc = "except"
       /\ \A p \in Procs :
             (proc[p].pc = "except" /\ proc'[p].pc = "done") =>
                 /\ Len(logs') = Len(logs) + 1
                 /\ logs'[Len(logs')].status = "failed"
                 /\ logs'[Len(logs')].run = proc[p].runNo]_vars

====
